---- MODULE Spec2Model ----
(***************************************************************************)
(* Single-elimination bracket engine of the Brawl Stars tournament bot     *)
(* (src/bot.py): team registration, bracket generation, winner recording   *)
(* and winner propagation over the bracket_matches table.                  *)
(*                                                                         *)
(* The model follows one tournament (id TID).  Updates are handled one at  *)
(* a time (the Application is built without concurrent_updates), so every  *)
(* handler is one atomic action.                                           *)
(***************************************************************************)
EXTENDS Integers, Sequences, FiniteSets, TLC

\* ---------------------------------------------------------------------
\* Bounds of the model
\* ---------------------------------------------------------------------
\* largest number of teams ever registered (team ids are 1..MaxTeams)
MaxTeams == 4
\* largest bracket_matches id handed out (AUTOINCREMENT never reuses ids)
MaxMatchId == 4

\* ---------------------------------------------------------------------
\* Program constants
\* ---------------------------------------------------------------------
\* SQL NULL / Python None in an id column (ids start at 1, so 0 is falsy
\* exactly as None is in "if match['winner']")
None == 0
\* the tournament followed by the model
TID == 1
\* /create refuses max_teams < 2 and the bracket handler refuses count < 2
MinTeams == 2
\* /create refuses max_teams > 64
MaxTeamsLimit == 64

\* variant: if max_teams > 65
too_many_off(n) == n > MaxTeamsLimit + 1

\* if max_teams > 64
too_many(n) == n > MaxTeamsLimit

Sides == {"A", "B", "X"}

\* teams that may occur in a stored bracket of the propagation study
PropTeams == {1, 2}

\* the users that send updates and hold registration conversations
Users == {1, 2}
\* the users of Users that are in ADMINS
ADMINS == {1}
\* the last argument of /create: a number, a text that is no number, or
\* no argument at all
CreateArgs ==
    {[kind |-> "int", value |-> v] : v \in (0..MaxTeams) \cup {64, 65}}
    \cup {[kind |-> "text", value |-> 0], [kind |-> "missing", value |-> 0]}
\* the team names users type
Names == {"alpha", "beta"}
\* the texts users send as leader username (sequences of characters)
LeaderTexts == {<<"@">>, <<"x">>, <<"@", "x">>}
\* largest number of roster photos followed per conversation
MaxPhotos == 2

\* ConversationHandler.END and the conversation states
END == "END"
REG_TEAM_NAME == "REG_TEAM_NAME"
REG_LEADER_USERNAME == "REG_LEADER_USERNAME"
REG_WAIT_ROSTER == "REG_WAIT_ROSTER"

\* a team name that is missing (user_data.get returns None)
NoName == ""
\* a leader username that is missing or empty
NoLeader == <<>>
\* user_data after clear(): no key is set, reg_roster defaults to []
NoData == [reg_tid |-> None, reg_teamname |-> NoName, reg_leader |-> NoLeader, reg_roster |-> 0]

VARIABLES
    status,       \* tournaments.status of TID, "none" while TID does not exist
    max_teams,    \* tournaments.max_teams of TID, 0 while TID does not exist
    teams,        \* ids of the rows of table teams with tournament_id = TID
    matches,      \* rows of table bracket_matches with tournament_id = TID
    nextTeamId,   \* next AUTOINCREMENT id of teams
    nextMatchId,  \* next AUTOINCREMENT id of bracket_matches
    inflight,     \* handlers that have committed a write and are not finished
    propagated,   \* propagate_winner has run since the bracket was written
    last,         \* the update handled last: [op, mid, side]
    reply,        \* the text the handler answered with
    conv,         \* state of each user's registration conversation
    user_data,    \* context.user_data of each user
    team_info,    \* name, leader_username and roster files stored per team id
    outbox,       \* kinds of notification sent to the administrators
    sender        \* effective_user of the update handled last, None before the first

vars == <<status, max_teams, teams, matches, nextTeamId, nextMatchId, inflight,
          propagated, last, reply, conv, user_data, team_info, outbox, sender>>

\* the variables of the registration conversations
regvars == <<conv, user_data, team_info>>

\* ---------------------------------------------------------------------
\* Helpers
\* ---------------------------------------------------------------------
Max(S) == CHOOSE x \in S : \A y \in S : y <= x

Req(op, mid, side) == [op |-> op, mid |-> mid, side |-> side]

\* SELECT COUNT(*) FROM teams WHERE tournament_id = ?
count_registered == Cardinality(teams)

\* row[0] if row else 0
get_tournament_max_teams == IF status = "none" THEN 0 ELSE max_teams

\* variant: return count > max_teams
is_tournament_full_strict == count_registered > get_tournament_max_teams

is_tournament_full == count_registered >= get_tournament_max_teams

\* reg_done: the notifications sent to every admin after the INSERT
reg_notify(count, mt) ==
    (IF count >= mt THEN {"FULL"} ELSE {}) \cup {"New registration"}

\* declare_winner: the notifications that reach the admins.  The loop calls
\* context.bot.send_message, and declare_winner(tid, winner_team_id) has no
\* name context: each iteration raises NameError, which except Exception
\* catches and logs.
declare_winner_notify(st, tms, w) == {}

\* random.shuffle(teams): every order of the fetched rows
RECURSIVE Shuffles(_)
\* variant: no shuffle, the rows stay in the order of the SELECT (by id)
Shuffles_unshuffled(S) ==
    {[i \in 1..Cardinality(S) |-> CHOOSE x \in S : Cardinality({y \in S : y < x}) = i - 1]}

Shuffles(S) ==
    IF S = {} THEN {<<>>}
    ELSE UNION {{<<x>> \o p : p \in Shuffles(S \ {x})} : x \in S}

Row(id, r, i, a, b, w) ==
    [id |-> id, round_index |-> r, match_index |-> i, teamA |-> a, teamB |-> b, winner |-> w]

\* ---------------------------------------------------------------------
\* generate_bracket: the rows inserted for the shuffled order, the first
\* of them getting id firstId.  for i in range(0, len(teams), 2): one
\* round-0 row per pair, teamB NULL when i+1 is past the end.
\* ---------------------------------------------------------------------
\* variant: the loop stops before an unpaired last team
\* (range(0, len(teams) - 1, 2))
generate_bracket_droplast(order, firstId) ==
    {Row(firstId + k, 0, k, order[2 * k + 1], order[2 * k + 2], None)
        : k \in 0..(Len(order) \div 2 - 1)}

generate_bracket(order, firstId) ==
    {Row(firstId + k, 0, k, order[2 * k + 1],
         IF 2 * k + 2 <= Len(order) THEN order[2 * k + 2] ELSE None,
         None) : k \in 0..((Len(order) + 1) \div 2 - 1)}

\* ---------------------------------------------------------------------
\* propagate_winner
\* ---------------------------------------------------------------------
\* rounds[r][i]: the row stored under round r, index i (keys are unique in
\* every bracket the model holds)
HasKey(ms, r, i) == \E m \in ms : m.round_index = r /\ m.match_index = i
AtKey(ms, r, i) == CHOOSE m \in ms : m.round_index = r /\ m.match_index = i

max_round(ms) == Max({m.round_index : m \in ms})

\* the value the sweep writes into slot pos (0 = teamA, 1 = teamB) of row d,
\* or None when no UPDATE touches that slot.  The sweep reads the snapshot
\* fetched at its start: round_idx in range(max_round), a source row with a
\* truthy winner, destination index match_idx // 2, slot match_idx % 2.
SlotWrite(ms, d, pos) ==
    LET r == d.round_index - 1
        i == 2 * d.match_index + pos
    IN  IF /\ r >= 0
           /\ r < max_round(ms)
           /\ HasKey(ms, r, i)
           /\ AtKey(ms, r, i).winner # None
           /\ AtKey(ms, r + 1, d.match_index).id = d.id
        THEN AtKey(ms, r, i).winner
        ELSE None

\* variant: the sweep also gives a winner to every row that the snapshot
\* shows with exactly one team and no winner, in any round
propagate_rows_autobye(ms) ==
    {[m EXCEPT !.teamA = IF SlotWrite(ms, m, 0) # None THEN SlotWrite(ms, m, 0) ELSE @,
               !.teamB = IF SlotWrite(ms, m, 1) # None THEN SlotWrite(ms, m, 1) ELSE @,
               !.winner = IF @ = None /\ m.teamA # None /\ m.teamB = None THEN m.teamA
                          ELSE IF @ = None /\ m.teamA = None /\ m.teamB # None THEN m.teamB
                          ELSE @]
        : m \in ms}

\* the table after the sweep: UPDATE ... SET teamA_id / teamB_id = winner,
\* unconditionally, on the destination row
propagate_rows(ms) ==
    {[m EXCEPT !.teamA = IF SlotWrite(ms, m, 0) # None THEN SlotWrite(ms, m, 0) ELSE @,
               !.teamB = IF SlotWrite(ms, m, 1) # None THEN SlotWrite(ms, m, 1) ELSE @]
        : m \in ms}

\* final_matches = [m for m in matches if m[1] == max_round]
final_matches(ms) == {m \in ms : m.round_index = max_round(ms)}

\* variant: completion is looked for only in a bracket with a later round
champion_later_round(ms) ==
    IF ms # {} /\ max_round(ms) > 0 /\ Cardinality(final_matches(ms)) = 1
    THEN (CHOOSE m \in final_matches(ms) : TRUE).winner
    ELSE None

\* the champion handed to declare_winner, None when declare_winner is not
\* called: len(final_matches) == 1 and final_matches[0][5]
champion(ms) ==
    IF ms # {} /\ Cardinality(final_matches(ms)) = 1
    THEN (CHOOSE m \in final_matches(ms) : TRUE).winner
    ELSE None

\* declare_winner: status becomes 'finished' when the winner's team row exists
declare_winner(st, tms, w) ==
    IF w # None /\ w \in tms /\ st # "none" THEN "finished" ELSE st

\* ---------------------------------------------------------------------
\* show_bracket_admin_view: the matches that get a pair of win buttons
\* ---------------------------------------------------------------------
Buttons(ms) == {m \in ms : m.winner = None /\ m.teamA # None /\ m.teamB # None}

\* the line the view appends below the rounds: if not kb
view_footer(ms) ==
    IF Buttons(ms) = {} THEN "All matches completed! Tournament finished." ELSE ""

\* ---------------------------------------------------------------------
\* winner_callback_handler: the winner chosen by win_<mid>_<side>
\* ---------------------------------------------------------------------
\* variant: an absent side falls back to the team that is present
winner_id_fallback(m, side) ==
    IF side = "A" THEN (IF m.teamA # None THEN m.teamA ELSE m.teamB)
    ELSE IF side = "B" THEN (IF m.teamB # None THEN m.teamB ELSE m.teamA)
    ELSE None

\* variant: the fetched row (tournament_id, teamA_id, teamB_id) is indexed
\* one column to the left
winner_id_shifted(m, side) ==
    IF side = "A" /\ m.teamA # None THEN TID
    ELSE IF side = "B" /\ m.teamB # None THEN m.teamA
    ELSE None

winner_id(m, side) ==
    IF side = "A" /\ m.teamA # None THEN m.teamA
    ELSE IF side = "B" /\ m.teamB # None THEN m.teamB
    ELSE None

\* variant: the row is looked up by the match number the view displays
\* ("Match {match_idx + 1}") instead of its id
fetch_match_by_number(ms, mid) == {m \in ms : m.match_index + 1 = mid}

\* SELECT ... FROM bracket_matches WHERE id = ?
fetch_match(ms, mid) == {m \in ms : m.id = mid}

\* ---------------------------------------------------------------------
\* Initial state: the database after init_db, no tournament yet
\* ---------------------------------------------------------------------
Init ==
    /\ status = "none"
    /\ max_teams = 0
    /\ teams = {}
    /\ matches = {}
    /\ nextTeamId = 1
    /\ nextMatchId = 1
    /\ inflight = {}
    /\ propagated = FALSE
    /\ last = Req("start", 0, "")
    /\ reply = ""
    /\ conv = [u \in Users |-> END]
    /\ user_data = [u \in Users |-> NoData]
    /\ team_info = <<>>
    /\ outbox = {}
    /\ sender = None

\* ---------------------------------------------------------------------
\* /create <name> <max_teams>
\* ---------------------------------------------------------------------
\* last.mid holds the number typed as <max_teams> and last.side the kind of
\* the argument.  @admin_only answers a sender outside ADMINS and returns;
\* a missing argument gets the usage text; int() raises ValueError on a
\* text that is not a number.
create_tournament_simple ==
    \E arg \in CreateArgs :
        /\ status = "none"
        /\ last' = Req("create", arg.value, arg.kind)
        /\ sender' \in Users
        /\ IF sender' \notin ADMINS
           THEN /\ reply' = "Admin-only command."
                /\ UNCHANGED <<status, max_teams>>
           ELSE IF arg.kind = "missing"
           THEN /\ reply' = "Usage: /create <tournament_name> <max_teams>"
                /\ UNCHANGED <<status, max_teams>>
           ELSE IF arg.kind = "text"
           THEN /\ reply' = "Max teams must be a number."
                /\ UNCHANGED <<status, max_teams>>
           ELSE IF arg.value < MinTeams
           THEN /\ reply' = "Minimum 2 teams required."
                /\ UNCHANGED <<status, max_teams>>
           ELSE IF too_many(arg.value)
           THEN /\ reply' = "Maximum 64 teams allowed."
                /\ UNCHANGED <<status, max_teams>>
           ELSE /\ status' = "registration"
                /\ max_teams' = arg.value
                /\ reply' = "Tournament created!"
        /\ UNCHANGED <<teams, matches, nextTeamId, nextMatchId, inflight, propagated, regvars, outbox>>

\* ---------------------------------------------------------------------
\* reg_done: the end of a registration conversation for TID that holds a
\* team name, a leader and at least one roster photo
\* ---------------------------------------------------------------------
reg_done ==
    /\ last' = Req("reg_done", 0, "")
    /\ sender' \in Users
    /\ IF is_tournament_full
       THEN /\ reply' = "Tournament is now full! Registration closed."
            /\ UNCHANGED <<teams, nextTeamId, status, outbox>>
       ELSE /\ nextTeamId <= MaxTeams
            /\ teams' = teams \cup {nextTeamId}
            /\ nextTeamId' = nextTeamId + 1
            /\ status' = IF Cardinality(teams') >= max_teams THEN "full" ELSE status
            /\ outbox' = outbox \cup reg_notify(Cardinality(teams'), max_teams)
            /\ reply' = "registered successfully!"
    /\ UNCHANGED <<max_teams, matches, nextMatchId, inflight, propagated, regvars>>

\* ---------------------------------------------------------------------
\* admin_callback_handler, data admin_bracket_<TID>
\* ---------------------------------------------------------------------
\* the effect of the branch on the request, the bracket and the status;
\* the branch never reads the sender
BracketEffect ==
    /\ last' = Req("admin_bracket", 0, "")
    /\ IF count_registered < MinTeams
       THEN /\ reply' = "Need at least 2 teams for bracket."
            /\ UNCHANGED <<status, matches, nextMatchId, propagated>>
       ELSE /\ nextMatchId + (count_registered + 1) \div 2 - 1 <= MaxMatchId
            /\ \E order \in Shuffles(teams) :
                   matches' = generate_bracket(order, nextMatchId)
            /\ nextMatchId' = nextMatchId + Cardinality(matches')
            /\ status' = "in_progress"
            /\ propagated' = FALSE
            /\ reply' = "Tournament Bracket:"
    /\ UNCHANGED <<max_teams, teams, nextTeamId, inflight, regvars, outbox>>

\* the button pressed by an admin, who is shown it by the admin panel
admin_bracket ==
    /\ BracketEffect
    /\ sender' \in ADMINS

\* ---------------------------------------------------------------------
\* winner_callback_handler, data win_<mid>_<side>
\* ---------------------------------------------------------------------
\* the effect of the handler on the request, the bracket and the status
WinEffect(mid, side) ==
    /\ last' = Req("win", mid, side)
    /\ IF fetch_match(matches, mid) = {}
       THEN /\ reply' = "Match not found."
            /\ UNCHANGED <<status, matches, propagated, outbox>>
       ELSE LET m == CHOOSE x \in fetch_match(matches, mid) : TRUE
                w == winner_id(m, side)
                written == (matches \ {m}) \cup {[m EXCEPT !.winner = w]}
            IN  IF w = None
                THEN /\ reply' = "Invalid selection."
                     /\ UNCHANGED <<status, matches, propagated, outbox>>
                ELSE IF w \notin teams
                THEN /\ reply' = "Team not found."
                     /\ UNCHANGED <<status, matches, propagated, outbox>>
                ELSE /\ matches' = propagate_rows(written)
                     /\ status' = declare_winner(status, teams, champion(written))
                     /\ outbox' = outbox \cup declare_winner_notify(status, teams, champion(written))
                     /\ propagated' = TRUE
                     /\ reply' = "Tournament Bracket:"

\* variant: recording a winner also deletes the eliminated team
winner_callback_handler_eliminates ==
    \E mid \in 1..MaxMatchId, side \in Sides :
        /\ WinEffect(mid, side)
        /\ sender' \in ADMINS
        /\ teams' = IF \E m \in fetch_match(matches, mid) :
                          winner_id(m, side) # None /\ winner_id(m, side) \in teams
                    THEN teams \ {t \in teams : \E m \in fetch_match(matches, mid) :
                                     t \in {m.teamA, m.teamB} /\ t # winner_id(m, side)}
                    ELSE teams
        /\ UNCHANGED <<max_teams, nextTeamId, nextMatchId, inflight, regvars>>

winner_callback_handler ==
    \E mid \in 1..MaxMatchId, side \in Sides :
        /\ WinEffect(mid, side)
        /\ sender' \in ADMINS
        /\ UNCHANGED <<max_teams, teams, nextTeamId, nextMatchId, inflight, regvars>>

Next ==
    \/ create_tournament_simple
    \/ reg_done
    \/ admin_bracket
    \/ winner_callback_handler

Spec == Init /\ [][Next]_vars

\* ---------------------------------------------------------------------
\* Authorisation study: the same handlers, with the two callbacks sent by
\* any user.  callback_handler routes data admin_* and win_* to the
\* handlers without looking at the sender, and a callback button can be
\* pressed by whoever holds its data.
\* ---------------------------------------------------------------------
admin_bracket_any_user ==
    /\ BracketEffect
    /\ sender' \in Users

winner_callback_any_user ==
    \E mid \in 1..MaxMatchId, side \in Sides :
        /\ WinEffect(mid, side)
        /\ sender' \in Users
        /\ UNCHANGED <<max_teams, teams, nextTeamId, nextMatchId, inflight, regvars>>

NextAuth ==
    \/ create_tournament_simple
    \/ reg_done
    \/ admin_bracket_any_user
    \/ winner_callback_any_user

SpecAuth == Init /\ [][NextAuth]_vars

\* ---------------------------------------------------------------------
\* Propagation study: propagate_winner and winner_callback_handler applied
\* to a stored bracket with a second round.  bracket_matches is durable
\* (restored from the backup by init_db), so the table propagate_winner
\* reads is an input of the function, drawn here from every 2-slot and
\* 4-slot bracket over PropTeams.
\* ---------------------------------------------------------------------
PropFields == {None} \cup PropTeams

StoredBrackets ==
    {{Row(1, 0, 0, f[1], f[2], f[3])} : f \in [1..3 -> PropFields]}
    \cup
    {{Row(1, 0, 0, f[1], f[2], f[3]), Row(2, 0, 1, f[4], f[5], f[6]),
      Row(3, 1, 0, f[7], f[8], f[9])} : f \in [1..9 -> PropFields]}

InitProp ==
    /\ status = "in_progress"
    /\ max_teams = Cardinality(PropTeams)
    /\ teams = PropTeams
    /\ matches \in StoredBrackets
    /\ nextTeamId = MaxTeams + 1
    /\ nextMatchId = MaxMatchId + 1
    /\ inflight = {}
    /\ propagated = FALSE
    /\ last = Req("load", 0, "")
    /\ reply = ""
    /\ conv = [u \in Users |-> END]
    /\ user_data = [u \in Users |-> NoData]
    /\ team_info = <<>>
    /\ outbox = {}
    /\ sender = None

\* propagate_winner(TID) on its own: the sweep and the completion check
propagate_winner ==
    /\ matches # {}
    /\ last' = Req("propagate", 0, "")
    /\ UNCHANGED sender
    /\ matches' = propagate_rows(matches)
    /\ status' = declare_winner(status, teams, champion(matches))
    /\ outbox' = outbox \cup declare_winner_notify(status, teams, champion(matches))
    /\ propagated' = TRUE
    /\ UNCHANGED <<max_teams, teams, nextTeamId, nextMatchId, inflight, reply, regvars>>

NextProp ==
    \/ propagate_winner
    \/ winner_callback_handler

SpecProp == InitProp /\ [][NextProp]_vars

\* ---------------------------------------------------------------------
\* Builder study: generate_bracket(TID) called on its own, without the
\* count check of its caller, on every set of registered teams.
\* ---------------------------------------------------------------------
InitGen ==
    /\ status = "registration"
    /\ max_teams = MaxTeams
    /\ teams \in SUBSET (1..MaxTeams)
    /\ matches = {}
    /\ nextTeamId = MaxTeams + 1
    /\ nextMatchId = 1
    /\ inflight = {}
    /\ propagated = FALSE
    /\ last = Req("load", 0, "")
    /\ reply = ""
    /\ conv = [u \in Users |-> END]
    /\ user_data = [u \in Users |-> NoData]
    /\ team_info = <<>>
    /\ outbox = {}
    /\ sender = None

\* generate_bracket(TID): fetch and shuffle the teams, DELETE the old rows,
\* INSERT the round-0 rows; it returns nothing and raises nothing
generate_bracket_call ==
    /\ nextMatchId + (count_registered + 1) \div 2 - 1 <= MaxMatchId
    /\ last' = Req("generate_bracket", 0, "")
    /\ UNCHANGED sender
    /\ \E order \in Shuffles(teams) :
           matches' = generate_bracket(order, nextMatchId)
    /\ nextMatchId' = nextMatchId + Cardinality(matches')
    /\ propagated' = FALSE
    /\ reply' = ""
    /\ UNCHANGED <<status, max_teams, teams, nextTeamId, inflight, regvars, outbox>>

NextGen == generate_bracket_call

SpecGen == InitGen /\ [][NextGen]_vars

\* ---------------------------------------------------------------------
\* Commit-level study: every db_execute commits (and backs up) on its own,
\* so the table is observable between the statements of one handler.  The
\* bracket and winner handlers are split at their commits; a handler that
\* has committed and not yet returned is kept in inflight.
\* ---------------------------------------------------------------------
Job(op, order, k, mid) == [op |-> op, order |-> order, k |-> k, mid |-> mid]

\* variant: ApplicationBuilder().concurrent_updates(True), the next update
\* is processed while a handler is still awaiting
CanDispatch_concurrent(fl) == Cardinality(fl) < 2

\* ApplicationBuilder().token(BOT_TOKEN).build(): updates are processed
\* one after the other, a handler starts when the previous one returned
CanDispatch(fl) == fl = {}

step_create == CanDispatch(inflight) /\ create_tournament_simple

step_reg_done == CanDispatch(inflight) /\ reg_done

\* admin_bracket_<TID> up to the commit of DELETE FROM bracket_matches
bracket_begin ==
    /\ CanDispatch(inflight)
    /\ last' = Req("admin_bracket", 0, "")
    /\ sender' \in ADMINS
    /\ IF count_registered < MinTeams
       THEN /\ reply' = "Need at least 2 teams for bracket."
            /\ UNCHANGED <<matches, inflight, propagated>>
       ELSE /\ nextMatchId + (count_registered + 1) \div 2 - 1 <= MaxMatchId
            /\ \E order \in Shuffles(teams) :
                   inflight' = inflight \cup {Job("gen", order, 0, 0)}
            /\ matches' = {}
            /\ propagated' = FALSE
            /\ reply' = ""
    /\ UNCHANGED <<status, max_teams, teams, nextTeamId, nextMatchId, regvars, outbox>>

\* one INSERT INTO bracket_matches of the loop, committed
bracket_insert ==
    \E j \in inflight :
        /\ j.op = "gen"
        /\ j.k < (Len(j.order) + 1) \div 2
        /\ nextMatchId <= MaxMatchId
        /\ matches' = matches \cup
               {r \in generate_bracket(j.order, nextMatchId - j.k) : r.match_index = j.k}
        /\ nextMatchId' = nextMatchId + 1
        /\ inflight' = (inflight \ {j}) \cup {Job("gen", j.order, j.k + 1, 0)}
        /\ UNCHANGED <<status, max_teams, teams, nextTeamId, propagated, last, reply, regvars, outbox, sender>>

\* after the loop: UPDATE tournaments SET status = 'in_progress', the view
bracket_end ==
    \E j \in inflight :
        /\ j.op = "gen"
        /\ j.k = (Len(j.order) + 1) \div 2
        /\ status' = IF status = "none" THEN status ELSE "in_progress"
        /\ reply' = "Tournament Bracket:"
        /\ inflight' = inflight \ {j}
        /\ UNCHANGED <<max_teams, teams, matches, nextTeamId, nextMatchId, propagated, last, regvars, outbox, sender>>

\* win_<mid>_<side> up to the commit of UPDATE ... SET winner_team_id
win_begin ==
    \E mid \in 1..MaxMatchId, side \in Sides :
        /\ CanDispatch(inflight)
        /\ last' = Req("win", mid, side)
        /\ sender' \in ADMINS
        /\ IF fetch_match(matches, mid) = {}
           THEN /\ reply' = "Match not found."
                /\ UNCHANGED <<matches, inflight>>
           ELSE LET m == CHOOSE x \in fetch_match(matches, mid) : TRUE
                    w == winner_id(m, side)
                IN  IF w = None
                    THEN /\ reply' = "Invalid selection."
                         /\ UNCHANGED <<matches, inflight>>
                    ELSE IF w \notin teams
                    THEN /\ reply' = "Team not found."
                         /\ UNCHANGED <<matches, inflight>>
                    ELSE /\ matches' = (matches \ {m}) \cup {[m EXCEPT !.winner = w]}
                         /\ inflight' = inflight \cup {Job("win", <<>>, 0, mid)}
                         /\ reply' = ""
        /\ UNCHANGED <<status, max_teams, teams, nextTeamId, nextMatchId, propagated, regvars, outbox>>

\* propagate_winner(tid) and the view that end the winner handler
win_end ==
    \E j \in inflight :
        /\ j.op = "win"
        /\ matches' = propagate_rows(matches)
        /\ status' = declare_winner(status, teams, champion(matches))
        /\ outbox' = outbox \cup declare_winner_notify(status, teams, champion(matches))
        /\ propagated' = TRUE
        /\ reply' = "Tournament Bracket:"
        /\ inflight' = inflight \ {j}
        /\ UNCHANGED <<max_teams, teams, nextTeamId, nextMatchId, last, regvars, sender>>

NextSteps ==
    \/ step_create
    \/ step_reg_done
    \/ bracket_begin
    \/ bracket_insert
    \/ bracket_end
    \/ win_begin
    \/ win_end

SpecSteps == Init /\ [][NextSteps]_vars

\* ---------------------------------------------------------------------
\* Deletion study: the handlers of Spec together with the team removal of
\* admin_callback_handler (data remove_<tid>_<team_id>) and
\* delete_team_complete.  The CallbackQueryHandler patterns of main() do
\* not match "remove_", so this branch runs only when it is called.
\* ---------------------------------------------------------------------
\* DELETE FROM teams with PRAGMA foreign_keys = ON: the bracket rows that
\* reference the team in teamA_id, teamB_id or winner_team_id go with it
cascade_matches(ms, t) ==
    {m \in ms : m.teamA # t /\ m.teamB # t /\ m.winner # t}

\* The status update reads count_registered and get_tournament_max_teams
\* through other connections while the DELETE is not yet committed: the
\* count is the one before the deletion.
remove_team ==
    \E t \in 1..MaxTeams :
        /\ last' = Req("remove", t, "")
        /\ sender' \in ADMINS
        /\ IF t \notin teams
           THEN /\ reply' = "Team not found."
                /\ UNCHANGED <<teams, matches, status>>
           ELSE /\ teams' = teams \ {t}
                /\ matches' = cascade_matches(matches, t)
                /\ status' = IF count_registered < get_tournament_max_teams
                              THEN "registration" ELSE status
                /\ reply' = "Removed team"
        /\ UNCHANGED <<max_teams, nextTeamId, nextMatchId, inflight, propagated, regvars, outbox>>

NextDel ==
    \/ Next
    \/ remove_team

SpecDel == Init /\ [][NextDel]_vars

\* ---------------------------------------------------------------------
\* Registration study: the ConversationHandler reg_conv of main() for the
\* users of Users, one conversation per user, handled one update at a
\* time.  last.mid holds the user the update came from.
\* ---------------------------------------------------------------------
\* text.strip().lstrip('@')
RECURSIVE lstrip_at(_)
lstrip_at(text) ==
    IF text # <<>> /\ Head(text) = "@" THEN lstrip_at(Tail(text)) ELSE text

\* SELECT id FROM teams WHERE tournament_id = ? AND name = ?
name_taken(name) == \E t \in teams : team_info[t].name = name

\* callback reg_<TID>: callback_handler as entry point of the conversation
\* (only when the user has no conversation: allow_reentry is off), and as
\* the plain CallbackQueryHandler otherwise, which leaves the state alone
reg_entry ==
    \E u \in Users :
        /\ last' = Req("reg", u, "")
        /\ sender' = u
        /\ IF is_tournament_full
           THEN /\ reply' = "Tournament is full! No more registrations accepted."
                /\ UNCHANGED <<conv, user_data>>
           ELSE /\ user_data' = [user_data EXCEPT ![u].reg_tid = TID]
                /\ conv' = [conv EXCEPT ![u] = IF @ = END THEN REG_TEAM_NAME ELSE @]
                /\ reply' = "Enter your team name:"
        /\ UNCHANGED <<status, max_teams, teams, matches, nextTeamId, nextMatchId,
                       inflight, propagated, team_info, outbox>>

\* a text message in state REG_TEAM_NAME
reg_team_name ==
    \E u \in Users, team_name \in Names :
        /\ conv[u] = REG_TEAM_NAME
        /\ last' = Req("reg_team_name", u, "")
        /\ sender' = u
        /\ IF user_data[u].reg_tid = None
           THEN /\ reply' = "Session expired. Please start over."
                /\ conv' = [conv EXCEPT ![u] = END]
                /\ UNCHANGED user_data
           ELSE IF is_tournament_full
           THEN /\ reply' = "Tournament is now full! Registration closed."
                /\ conv' = [conv EXCEPT ![u] = END]
                /\ UNCHANGED user_data
           ELSE IF name_taken(team_name)
           THEN /\ reply' = "Team name already taken in this tournament. Choose another:"
                /\ UNCHANGED <<conv, user_data>>
           ELSE /\ user_data' = [user_data EXCEPT ![u].reg_teamname = team_name]
                /\ conv' = [conv EXCEPT ![u] = REG_LEADER_USERNAME]
                /\ reply' = "Enter team leader's Telegram username (without @):"
        /\ UNCHANGED <<status, max_teams, teams, matches, nextTeamId, nextMatchId,
                       inflight, propagated, team_info, outbox>>

\* a text message in state REG_LEADER_USERNAME
reg_leader ==
    \E u \in Users, text \in LeaderTexts :
        /\ conv[u] = REG_LEADER_USERNAME
        /\ last' = Req("reg_leader", u, "")
        /\ sender' = u
        /\ IF lstrip_at(text) = NoLeader
           THEN /\ reply' = "Please enter a valid username:"
                /\ UNCHANGED <<conv, user_data>>
           ELSE /\ user_data' = [user_data EXCEPT ![u].reg_leader = lstrip_at(text),
                                                    ![u].reg_roster = 0]
                /\ conv' = [conv EXCEPT ![u] = REG_WAIT_ROSTER]
                /\ reply' = "Now send roster photos"
        /\ UNCHANGED <<status, max_teams, teams, matches, nextTeamId, nextMatchId,
                       inflight, propagated, team_info, outbox>>

\* a photo in state REG_WAIT_ROSTER
reg_photo ==
    \E u \in Users :
        /\ conv[u] = REG_WAIT_ROSTER
        /\ user_data[u].reg_roster < MaxPhotos
        /\ last' = Req("reg_photo", u, "")
        /\ sender' = u
        /\ user_data' = [user_data EXCEPT ![u].reg_roster = @ + 1]
        /\ reply' = "Photo received."
        /\ UNCHANGED <<status, max_teams, teams, matches, nextTeamId, nextMatchId,
                       inflight, propagated, conv, team_info, outbox>>

\* /done of a user in a conversation: the CommandHandler of state
\* REG_WAIT_ROSTER, and the fallback in the two other states
reg_done_user ==
    \E u \in Users :
        /\ conv[u] # END
        /\ last' = Req("reg_done", u, "")
        /\ sender' = u
        /\ IF user_data[u].reg_tid = None
           THEN /\ reply' = "Session expired."
                /\ conv' = [conv EXCEPT ![u] = END]
                /\ UNCHANGED <<status, teams, nextTeamId, user_data, team_info, outbox>>
           ELSE IF is_tournament_full
           THEN /\ reply' = "Tournament is now full! Registration closed."
                /\ conv' = [conv EXCEPT ![u] = END]
                /\ UNCHANGED <<status, teams, nextTeamId, user_data, team_info, outbox>>
           ELSE IF user_data[u].reg_roster = 0
           THEN /\ reply' = "Please send at least 1 photo for roster."
                /\ conv' = [conv EXCEPT ![u] = REG_WAIT_ROSTER]
                /\ UNCHANGED <<status, teams, nextTeamId, user_data, team_info, outbox>>
           ELSE IF user_data[u].reg_teamname = NoName
           \* teams.name is NOT NULL: the INSERT raises, nothing is committed
           \* and the handler ends without a new state
           THEN /\ reply' = ""
                /\ UNCHANGED <<status, teams, nextTeamId, conv, user_data, team_info, outbox>>
           ELSE /\ nextTeamId <= MaxTeams
                /\ teams' = teams \cup {nextTeamId}
                /\ team_info' = team_info @@
                       (nextTeamId :> [name |-> user_data[u].reg_teamname,
                                       leader |-> user_data[u].reg_leader,
                                       roster |-> user_data[u].reg_roster])
                /\ nextTeamId' = nextTeamId + 1
                /\ status' = IF Cardinality(teams') >= max_teams THEN "full" ELSE status
                /\ outbox' = outbox \cup reg_notify(Cardinality(teams'), max_teams)
                /\ user_data' = [user_data EXCEPT ![u] = NoData]
                /\ conv' = [conv EXCEPT ![u] = END]
                /\ reply' = "registered successfully!"
        /\ UNCHANGED <<max_teams, matches, nextMatchId, inflight, propagated>>

NextReg ==
    \/ create_tournament_simple
    \/ reg_entry
    \/ reg_team_name
    \/ reg_leader
    \/ reg_photo
    \/ reg_done_user

SpecReg == Init /\ [][NextReg]_vars

\* ---------------------------------------------------------------------
\* Tournament deletion study: the handlers of Spec together with the two
\* callbacks of the deletion dialogue, admin_del_<TID> and
\* confirm_del_<TID>, dispatched through the CallbackQueryHandler patterns
\* of main().  Callback data is the sequence of its "_"-separated parts.
\* ---------------------------------------------------------------------
StartsWith(data, prefix) ==
    Len(prefix) <= Len(data) /\ SubSeq(data, 1, Len(prefix)) = prefix

\* pattern=r"^(view_t_|reg_|teams_|team_|admin_|bracket_)"
CallbackPatterns ==
    {<<"view", "t">>, <<"reg">>, <<"teams">>, <<"team">>, <<"admin">>, <<"bracket">>}

\* the handler main() registers for the callback data, "none" when no
\* pattern matches and the update is dropped
dispatch(data) ==
    IF \E prefix \in CallbackPatterns : StartsWith(data, prefix) THEN "callback_handler"
    ELSE IF StartsWith(data, <<"win">>) THEN "winner_callback_handler"
    ELSE "none"

\* callback_handler passes the update on to admin_callback_handler only for
\* data.startswith("admin_")
reaches_admin_handler(data) ==
    dispatch(data) = "callback_handler" /\ StartsWith(data, <<"admin">>)

\* admin_callback_handler, branch data.startswith("admin_del_")
admin_del ==
    /\ last' = Req("admin_del", 0, "")
    /\ sender' \in ADMINS
    /\ reply' = IF reaches_admin_handler(<<"admin", "del", TID>>) /\ status # "none"
                THEN "Delete tournament?"
                ELSE ""
    /\ UNCHANGED <<status, max_teams, teams, matches, nextTeamId, nextMatchId,
                   inflight, propagated, regvars, outbox>>

\* admin_callback_handler, branch data.startswith("confirm_del_"), and
\* delete_tournament_complete: DELETE FROM tournaments with foreign keys on
\* cascades to teams, roster_files and bracket_matches
confirm_del ==
    /\ last' = Req("confirm_del", 0, "")
    /\ sender' \in ADMINS
    /\ IF reaches_admin_handler(<<"confirm", "del", TID>>) /\ status # "none"
       THEN /\ status' = "none"
            /\ max_teams' = 0
            /\ teams' = {}
            /\ matches' = {}
            /\ reply' = "Deleted tournament"
       ELSE /\ reply' = ""
            /\ UNCHANGED <<status, max_teams, teams, matches>>
    /\ UNCHANGED <<nextTeamId, nextMatchId, inflight, propagated, regvars, outbox>>

NextTournamentDel ==
    \/ Next
    \/ admin_del
    \/ confirm_del

SpecTournamentDel == Init /\ [][NextTournamentDel]_vars

\* =====================================================================
\* Properties
\* =====================================================================
RECURSIVE CeilPow2From(_, _)
CeilPow2From(p, n) == IF p >= n THEN p ELSE CeilPow2From(2 * p, n)
\* smallest power of two >= n
CeilPow2(n) == CeilPow2From(1, n)

RECURSIVE Log2(_)
Log2(p) == IF p <= 1 THEN 0 ELSE 1 + Log2(p \div 2)

InRound(ms, r) == {m \in ms : m.round_index = r}

\* the state right after a bracket generation
JustGenerated == last.op = "admin_bracket" /\ reply = "Tournament Bracket:"

\* the state right after a winner was recorded and propagated
JustRecorded == last.op = "win" /\ reply = "Tournament Bracket:"

\* the (row, slot) pairs of round 0 that hold team t
SlotsOf(ms, t) ==
    {<<m.id, "A">> : m \in {x \in InRound(ms, 0) : x.teamA = t}}
    \cup {<<m.id, "B">> : m \in {x \in InRound(ms, 0) : x.teamB = t}}

\* the teams seated in round 0
BracketTeams(ms) ==
    ({m.teamA : m \in InRound(ms, 0)} \cup {m.teamB : m \in InRound(ms, 0)}) \ {None}

\* C1: right after generation from n >= 2 teams the bracket has
\* ceil_pow2(n)/2 round-0 matches, log2(ceil_pow2(n)) rounds, every round
\* half as large as the one before, and one match in the last round.
C1_BracketShape ==
    JustGenerated =>
        LET n == Cardinality(teams)
            R == Log2(CeilPow2(n))
        IN  /\ Cardinality(InRound(matches, 0)) = CeilPow2(n) \div 2
            /\ {m.round_index : m \in matches} = 0..(R - 1)
            /\ \A r \in 1..(R - 1) :
                   2 * Cardinality(InRound(matches, r)) = Cardinality(InRound(matches, r - 1))
            /\ Cardinality(InRound(matches, R - 1)) = 1

\* C2: right after generation the non-absent round-0 slots hold exactly
\* the registered teams, each team in exactly one slot.
C2_SeatsAreTeams ==
    JustGenerated =>
        /\ BracketTeams(matches) = teams
        /\ \A t \in teams : Cardinality(SlotsOf(matches, t)) = 1

C2_Witness ==
    /\ JustGenerated
    /\ Cardinality(teams) = 3
    /\ \E m \in matches : m.teamB = None

\* C3: after propagate, a decided match of a round that is not the last has
\* its winner in slot A (even index) or B (odd index) of the match at
\* (round + 1, index div 2); for a 4-team bracket with both round-0 matches
\* decided, round-1 match 0 is (winner of match 0) vs (winner of match 1).
C3_WinnerAdvances ==
    propagated =>
        /\ \A m \in matches :
               (m.winner # None /\ m.round_index < max_round(matches)) =>
                   \E d \in matches :
                       /\ d.round_index = m.round_index + 1
                       /\ d.match_index = m.match_index \div 2
                       /\ IF m.match_index % 2 = 0 THEN d.teamA = m.winner
                                                   ELSE d.teamB = m.winner
        /\ (/\ Cardinality(BracketTeams(matches)) = 4
            /\ \A m \in InRound(matches, 0) : m.winner # None) =>
               \E d \in matches, m0, m1 \in InRound(matches, 0) :
                   /\ m0.match_index = 0 /\ m1.match_index = 1
                   /\ d.round_index = 1 /\ d.match_index = 0
                   /\ d.teamA = m0.winner /\ d.teamB = m1.winner

\* C4: a generated bracket that is still in progress always offers a match
\* that can be decided (two teams, no winner), so recording winners keeps
\* making progress until the tournament is finished.
C4_NeverStuck ==
    (status = "in_progress" /\ matches # {}) => Buttons(matches) # {}

\* C5: once propagate has run over the bracket, every round-0 match with
\* exactly one team has that team as its winner.
C5_ByeResolved ==
    propagated =>
        \A m \in InRound(matches, 0) :
            (m.teamA # None /\ m.teamB = None) => m.winner = m.teamA

\* C6: the tournament is finished exactly when the only match of the
\* highest round has a winner.
FinalDecided ==
    /\ matches # {}
    /\ Cardinality(final_matches(matches)) = 1
    /\ \A m \in final_matches(matches) : m.winner # None

C6_FinishedIffFinalDecided == (status = "finished") <=> FinalDecided

\* C7: a winner, once written to a match, is never changed or removed by a
\* later step for as long as the match exists.
C7_WinnerWrittenOnce ==
    [][\A m \in matches : \A n \in matches' :
           (m.id = n.id /\ m.winner # None) => n.winner = m.winner]_vars

\* C8: a win request whose side names no present participant of an existing
\* match is answered with an error and changes no match and no status.
C8_InvalidWinnerRejected ==
    [][\A m \in matches :
           (/\ last'.op = "win"
            /\ last'.mid = m.id
            /\ ~(last'.side = "A" /\ m.teamA # None)
            /\ ~(last'.side = "B" /\ m.teamB # None))
           => (/\ reply' = "Invalid selection."
               /\ matches' = matches
               /\ status' = status)]_vars

C8_Witness ==
    /\ last.op = "win"
    /\ reply = "Invalid selection."
    /\ \E m \in matches :
           m.id = last.mid /\ last.side = "B" /\ m.teamA # None /\ m.teamB = None

\* C9: every match with a winner has that winner as its teamA or teamB.
C9_WinnerIsParticipant ==
    \A m \in matches : m.winner # None => m.winner \in {m.teamA, m.teamB}

C9_Witness ==
    /\ JustRecorded
    /\ \E m \in matches : m.id = last.mid /\ m.winner # None /\ m.winner = m.teamB

\* C10: once propagate has run, a further propagate with no winner recorded
\* in between leaves every match as it is.
C10_PropagateIdempotent ==
    [][(propagated /\ last'.op = "propagate") => matches' = matches]_vars

C10_Witness ==
    /\ last.op = "propagate"
    /\ \E d \in InRound(matches, 1), m0, m1 \in InRound(matches, 0) :
           /\ m0.match_index = 0 /\ m1.match_index = 1
           /\ m0.winner # None /\ m1.winner # None
           /\ d.teamA = m0.winner /\ d.teamB = m1.winner
           /\ d.winner = None

\* C11: in a bracket of 2 teams the single round-0 match is the final:
\* right after its winner is recorded the status is 'finished' and the
\* match's winner is the team of the side that was named.
C11_TwoTeamFinal ==
    (JustRecorded /\ Cardinality(matches) = 1 /\ Cardinality(BracketTeams(matches)) = 2) =>
        \A m \in matches :
            /\ m.id = last.mid
            /\ m.round_index = 0
            /\ m.winner = (IF last.side = "A" THEN m.teamA ELSE m.teamB)
            /\ status = "finished"

C11_Witness ==
    /\ JustRecorded
    /\ Cardinality(matches) = 1
    /\ Cardinality(BracketTeams(matches)) = 2
    /\ last.side = "B"
    /\ status = "finished"

\* C12: the builder called with fewer than 2 teams is rejected and writes
\* no bracket; no stored bracket seats fewer than 2 teams.
C12_BuilderRejectsSmall ==
    /\ (last.op = "generate_bracket" /\ Cardinality(teams) < MinTeams) => matches = {}
    /\ matches # {} => Cardinality(BracketTeams(matches)) >= MinTeams

\* C13: the stored bracket is replaced as a whole: at every commit the
\* table is empty or seats all the teams the generation read, and right
\* after a generation it is one fresh bracket without winners.
C13_NoPartialBracket ==
    /\ \A j \in inflight :
           j.op = "gen" => (matches = {} \/ BracketTeams(matches) = teams)
    /\ JustGenerated =>
           (BracketTeams(matches) = teams /\ \A m \in matches : m.winner = None)

\* C18: from the commit of the winner write to the end of that handler's
\* propagation no other handler takes a step: no second cycle starts, and
\* no registration, generation or winner write happens in between.
C18_CycleAtomic ==
    [][(\E j \in inflight : j.op = "win") =>
           (/\ inflight' = {}
            /\ last' = last
            /\ teams' = teams
            /\ nextMatchId' = nextMatchId
            /\ \A m \in matches : \E n \in matches' : n.id = m.id /\ n.winner = m.winner)]_vars

C18_Witness ==
    /\ \E j \in inflight : j.op = "win" /\ \E m \in matches : m.id = j.mid /\ m.winner # None
    /\ Buttons(matches) # {}

\* C14: in every round the stored match indexes are exactly 0..k-1 for the
\* k rows of the round, so a (round, index) key names at most one match and
\* the round has no gap.
C14_KeysDense ==
    \A r \in {m.round_index : m \in matches} :
        {m.match_index : m \in InRound(matches, r)}
            = 0..(Cardinality(InRound(matches, r)) - 1)

C17_UnknownMatchRejected ==
    [][(last'.op = "win" /\ ~(\E m \in matches : m.id = last'.mid)) =>
           (/\ reply' = "Match not found."
            /\ matches' = matches
            /\ status' = status
            /\ propagated' = propagated)]_vars

C17_Witness ==
    /\ last.op = "win"
    /\ reply = "Match not found."
    /\ matches # {}
    /\ \A m \in matches : m.id > last.mid

\* C19: bracket generation, winner recording and propagation leave the
\* registered teams as they are.
C19_EngineKeepsTeams ==
    [][last'.op \in {"admin_bracket", "win", "propagate"} => teams' = teams]_vars

C19_Witness ==
    /\ JustRecorded
    /\ \E m \in matches :
           /\ m.id = last.mid
           /\ m.winner = m.teamA
           /\ m.teamB # None
           /\ {m.teamA, m.teamB} \subseteq teams

RECURSIVE Pow2(_)
Pow2(k) == IF k <= 0 THEN 1 ELSE 2 * Pow2(k - 1)

\* C20: right after generation no round-0 match has a winner and every
\* match of the rounds 1 .. log2(ceil_pow2(n)) - 1 exists with teamA, teamB
\* and winner absent.
C20_PlaceholdersExist ==
    JustGenerated =>
        LET n == Cardinality(teams)
            R == Log2(CeilPow2(n))
        IN  /\ \A m \in InRound(matches, 0) : m.winner = None
            /\ \A m \in matches :
                   m.round_index > 0 =>
                       (m.teamA = None /\ m.teamB = None /\ m.winner = None)
            /\ \A r \in 1..(R - 1) : \A i \in 0..(CeilPow2(n) \div Pow2(r + 1) - 1) :
                   \E m \in matches : m.round_index = r /\ m.match_index = i

\* the orders in which the teams of S can be listed
Perms(S) ==
    {f \in [1..Cardinality(S) -> S] : \A i, j \in 1..Cardinality(S) : f[i] = f[j] => i = j}

C22_GenerateOnlyBeforeStart ==
    [][(last'.op = "admin_bracket" /\ reply' = "Tournament Bracket:") =>
           /\ status \in {"registration", "full"}
           /\ count_registered >= MinTeams
           /\ \A m \in matches : m.winner = None]_vars

\* C23: whenever a bracket exists, every registered team sits in a round-0
\* slot of it (no team is added once the bracket is generated).
C23_TeamsAreSeated ==
    matches # {} => teams \subseteq BracketTeams(matches)

\* C24: a status 'in_progress' or 'finished' never goes back to
\* 'registration' or 'full', and 'finished' never goes back to
\* 'in_progress'.
C24_StatusForward ==
    [][/\ status \in {"in_progress", "finished"} => status' \notin {"registration", "full"}
       /\ status = "finished" => status' # "in_progress"]_vars

\* C25: the number of registered teams never exceeds max_teams, whatever
\* the interleaving of the users' registration conversations.
C25_WithinCapacity ==
    count_registered <= get_tournament_max_teams

C25_Witness ==
    /\ last.op = "reg_done"
    /\ reply = "Tournament is now full! Registration closed."
    /\ count_registered = max_teams
    /\ user_data[last.mid].reg_teamname # NoName
    /\ user_data[last.mid].reg_roster > 0

\* C26: no two teams registered in the tournament have the same name.
C26_NamesUnique ==
    \A t1, t2 \in teams : team_info[t1].name = team_info[t2].name => t1 = t2

\* C27: every registered team has a team name, a non-empty leader username
\* and at least one roster photo.
C27_TeamsComplete ==
    \A t \in teams :
        /\ team_info[t].name # NoName
        /\ team_info[t].leader # NoLeader
        /\ team_info[t].roster >= 1

\* C28: after a team is removed the status follows the new team count: it
\* is 'registration' when fewer than max_teams teams remain, and status
\* 'full' always means that max_teams teams are registered.
C28_StatusFollowsCount ==
    /\ status = "full" => count_registered >= max_teams
    /\ (last.op = "remove" /\ reply = "Removed team" /\ count_registered < max_teams) =>
           status = "registration"

\* C29: when the admin confirms the deletion that admin_del offered, the
\* tournament, its teams and its bracket matches are gone afterwards.
C29_ConfirmDeletes ==
    [][(last.op = "admin_del" /\ reply = "Delete tournament?" /\ last'.op = "confirm_del") =>
           (status' = "none" /\ teams' = {} /\ matches' = {})]_vars

\* C30: right after the final match got its winner the status is
\* 'finished' and the admins have been sent the TOURNAMENT FINISHED
\* notification.
C30_CompletionReported ==
    (JustRecorded /\ FinalDecided /\ \E m \in final_matches(matches) : m.id = last.mid) =>
        (status = "finished" /\ "TOURNAMENT FINISHED" \in outbox)

\* C31: an update sent by a user outside ADMINS changes no tournament, no
\* team and no bracket match.
C31_AdminOnly ==
    [][sender' \notin ADMINS /\ last'.op \in {"create", "admin_bracket", "win"} =>
           UNCHANGED <<status, max_teams, teams, matches>>]_vars

\* C32: /create stores a tournament, with status 'registration', only for
\* a number between 2 and 64; for any other argument it answers with an
\* error and stores nothing; every stored tournament has 2..64 max_teams.
C32_CreateValidated ==
    [][/\ last'.op = "create" =>
           /\ (status' # status \/ max_teams' # max_teams) =>
                  /\ last'.side = "int"
                  /\ 2 <= last'.mid /\ last'.mid <= 64
                  /\ status' = "registration"
                  /\ max_teams' = last'.mid
           /\ (last'.side # "int" \/ last'.mid < 2 \/ last'.mid > 64) =>
                  /\ status' = status
                  /\ max_teams' = max_teams
                  /\ reply' \in {"Admin-only command.",
                                 "Usage: /create <tournament_name> <max_teams>",
                                 "Max teams must be a number.",
                                 "Minimum 2 teams required.",
                                 "Maximum 64 teams allowed."}
       /\ status' # "none" => (2 <= max_teams' /\ max_teams' <= 64)]_vars

C32_Witness ==
    /\ last = Req("create", 65, "int")
    /\ sender \in ADMINS
    /\ reply = "Maximum 64 teams allowed."
    /\ status = "none"

\* C33: when the admin view shows "All matches completed! Tournament
\* finished.", every match has a winner, the final is decided and the
\* status is 'finished'.
C33_CompletedMessageTruthful ==
    (reply = "Tournament Bracket:" /\ matches # {}
        /\ view_footer(matches) = "All matches completed! Tournament finished.") =>
        /\ \A m \in matches : m.winner # None
        /\ FinalDecided
        /\ status = "finished"

====
